---- MODULE Spec2Model ----
(***************************************************************************)
(* Reference resolution (Schema::from_ref, Example::from_ref,              *)
(* ObjectOrReference::resolve) and the location Path of oas3-rs.           *)
(*                                                                         *)
(* A raw reference string is modelled as the sequence of its '/'-separated *)
(* segments: "#/components/schemas/Pet" is <<"#","components","schemas",   *)
(* "Pet">>.  Option<T> is a sequence of length at most one.                *)
(***************************************************************************)
EXTENDS Integers, Sequences, FiniteSets, TLC

VARIABLES doc, call, pc, stack, cur, result, lookups, hops, run, first,
          paths, pushed, origin, nops, last

vars == <<doc, call, pc, stack, cur, result, lookups, hops, run, first,
          paths, pushed, origin, nops, last>>

resolveVars == <<doc, call, pc, stack, cur, result, lookups, hops, run, first>>

pathVars == <<paths, pushed, origin, nops, last>>

\* ------------------------------------------------------------------ bounds
\* depth of nested from_ref activations the stack can hold
StackLimit == 3

\* number of push, pop and extend calls in one behaviour
MaxOps == 4

\* ------------------------------------------------------------ value spaces
None == <<>>

Some(x) == <<x>>

Names == {"A", "B"}

RefStr(coll, name) == <<"#", "components", coll, name>>

\* well-formed and malformed raw reference strings handed to the resolvers
RefStrings ==
    {RefStr(c, n) : c \in {"schemas", "examples", "widgets"}, n \in Names \cup {"C"}}
        \cup {RefStr("responses", "A"),
              <<"#", "components", "schemas">>,
              RefStr("schemas", "")}

Object(v) == [tag |-> "Object", val |-> v]

Ref(p) == [tag |-> "Ref", ref_path |-> p]

\* Schema values: the type and the items field (an Option of a nested
\* ObjectOrReference<Schema>)
Schema(t, it) == [schema_type |-> t, items |-> it]

SchemaVals ==
    {Schema("object", None), Schema("array", Some(Ref(RefStr("schemas", "A"))))}

Example(s) == [summary |-> s]

ExampleVals == {Example("e1")}

SchemaEntries ==
    {Object(s) : s \in SchemaVals}
        \cup {Ref(RefStr("schemas", "A")), Ref(RefStr("schemas", "B")),
              Ref(RefStr("examples", "A"))}

ExampleEntries ==
    {Object(e) : e \in ExampleVals}
        \cup {Ref(RefStr("examples", "A")), Ref(RefStr("examples", "B"))}

Maps(E) == UNION {[D -> E] : D \in SUBSET Names}

Components == [schemas : Maps(SchemaEntries), examples : Maps(ExampleEntries)]

\* Spec.components is an Option<Components>
Documents == {[components |-> None]} \cup {[components |-> Some(cs)] : cs \in Components}

\* ------------------------------------------------------------ RefError
Unresolvable(p) == [e |-> "Unresolvable", path |-> p]

MismatchedType(found, expected) ==
    [e |-> "MismatchedType", found |-> found, expected |-> expected]

InvalidType(p) == [e |-> "InvalidType", path |-> p]

Ok(v) == [tag |-> "Ok", val |-> v]

Err(e) == [tag |-> "Err", err |-> e]

Pending == [tag |-> "Pending"]

\* ------------------------------------------------------------ parsing
\* strict form: collection segment -> RefType
RefType_from_str(seg) ==
    CASE seg = "schemas" -> Some("Schema")
      [] seg = "examples" -> Some("Example")
      [] seg = "responses" -> Some("Response")
      [] OTHER -> None

\* strict form: path.parse::<Ref>()
Ref_from_str(path) ==
    IF Len(path) # 4 \/ path[1] # "#" \/ path[4] = ""
        THEN Err(InvalidType(path))
    ELSE IF RefType_from_str(path[3]) = None
        THEN Err(InvalidType(path))
    ELSE Ok([kind |-> RefType_from_str(path[3])[1], name |-> path[4]])

\* loose form: RefPath::from_str(path); the kind is the second-to-last
\* segment as a plain string, the name the last one; it never fails
RefPath_from_str(path) ==
    [kind |-> IF Len(path) >= 2 THEN path[Len(path) - 1] ELSE "",
     name |-> IF Len(path) >= 1 THEN path[Len(path)] ELSE ""]

\* ------------------------------------------------------------ activations
\* One activation of a resolver: either it returns (ret = Some(result)) or
\* it ends in the call `oor.resolve(spec)` on the entry it found
\* (next = Some(entry)), whose outcome it propagates unchanged.
\* looked: cs.<collection>.get(name) was evaluated; spec: the document after
\* the activation (the code only holds &Spec).
Return(r, looked, spec) == [ret |-> Some(r), next |-> None, looked |-> looked, spec |-> spec]

Delegate(oor, spec) == [ret |-> None, next |-> Some(oor), looked |-> TRUE, spec |-> spec]

\* variants of Schema::from_ref with one slip each
\* a foreign kind falls through to the not-found arm
Schema_from_ref_kindAsAbsent(spec, path) ==
    LET refpath == Ref_from_str(path) IN
    IF refpath.tag = "Err" THEN Return(refpath, FALSE, spec)
    ELSE IF refpath.val.kind = "Schema"
            /\ spec.components # None
            /\ refpath.val.name \in DOMAIN spec.components[1].schemas
        THEN Delegate(spec.components[1].schemas[refpath.val.name], spec)
    ELSE Return(Err(Unresolvable(path)), spec.components # None, spec)

\* Unresolvable carries the parsed name instead of the raw string
Schema_from_ref_nameInError(spec, path) ==
    LET refpath == Ref_from_str(path) IN
    IF refpath.tag = "Err" THEN Return(refpath, FALSE, spec)
    ELSE IF refpath.val.kind = "Schema" THEN
        IF spec.components = None
            THEN Return(Err(Unresolvable(<<refpath.val.name>>)), FALSE, spec)
        ELSE IF refpath.val.name \in DOMAIN spec.components[1].schemas
            THEN Delegate(spec.components[1].schemas[refpath.val.name], spec)
        ELSE Return(Err(Unresolvable(<<refpath.val.name>>)), TRUE, spec)
    ELSE Return(Err(MismatchedType(refpath.val.kind, "Schema")), FALSE, spec)

\* the name is looked up in the examples collection
Schema_from_ref_wrongCollection(spec, path) ==
    LET refpath == Ref_from_str(path) IN
    IF refpath.tag = "Err" THEN Return(refpath, FALSE, spec)
    ELSE IF refpath.val.kind = "Schema" THEN
        IF spec.components = None
            THEN Return(Err(Unresolvable(path)), FALSE, spec)
        ELSE IF refpath.val.name \in DOMAIN spec.components[1].examples
            THEN Delegate(spec.components[1].examples[refpath.val.name], spec)
        ELSE Return(Err(Unresolvable(path)), TRUE, spec)
    ELSE Return(Err(MismatchedType(refpath.val.kind, "Schema")), FALSE, spec)

\* a parse failure is swallowed and reported as not found
Schema_from_ref_parseSwallowed(spec, path) ==
    LET refpath == Ref_from_str(path) IN
    IF refpath.tag = "Err" THEN Return(Err(Unresolvable(path)), FALSE, spec)
    ELSE IF refpath.val.kind = "Schema" THEN
        IF spec.components = None
            THEN Return(Err(Unresolvable(path)), FALSE, spec)
        ELSE IF refpath.val.name \in DOMAIN spec.components[1].schemas
            THEN Delegate(spec.components[1].schemas[refpath.val.name], spec)
        ELSE Return(Err(Unresolvable(path)), TRUE, spec)
    ELSE Return(Err(MismatchedType(refpath.val.kind, "Schema")), FALSE, spec)

\* the entry is taken out of the collection (remove) instead of read (get)
Schema_from_ref_takesEntry(spec, path) ==
    LET refpath == Ref_from_str(path) IN
    IF refpath.tag = "Err" THEN Return(refpath, FALSE, spec)
    ELSE IF refpath.val.kind = "Schema" THEN
        IF spec.components = None
            THEN Return(Err(Unresolvable(path)), FALSE, spec)
        ELSE IF refpath.val.name \in DOMAIN spec.components[1].schemas
            THEN LET cs == spec.components[1]
                     rest == [n \in DOMAIN cs.schemas \ {refpath.val.name} |-> cs.schemas[n]]
                 IN  Delegate(cs.schemas[refpath.val.name],
                              [components |-> Some([cs EXCEPT !.schemas = rest])])
        ELSE Return(Err(Unresolvable(path)), TRUE, spec)
    ELSE Return(Err(MismatchedType(refpath.val.kind, "Schema")), FALSE, spec)

Schema_from_ref(spec, path) ==
    LET refpath == Ref_from_str(path) IN
    IF refpath.tag = "Err" THEN Return(refpath, FALSE, spec)
    ELSE IF refpath.val.kind = "Schema" THEN
        IF spec.components = None
            THEN Return(Err(Unresolvable(path)), FALSE, spec)
        ELSE IF refpath.val.name \in DOMAIN spec.components[1].schemas
            THEN Delegate(spec.components[1].schemas[refpath.val.name], spec)
        ELSE Return(Err(Unresolvable(path)), TRUE, spec)
    ELSE Return(Err(MismatchedType(refpath.val.kind, "Schema")), FALSE, spec)

\* variant of Example::from_ref that looks the name up whatever the kind
Example_from_ref_anyKind(spec, path) ==
    LET refpath == RefPath_from_str(path) IN
    IF spec.components = None
        THEN Return(None, FALSE, spec)
    ELSE IF refpath.name \in DOMAIN spec.components[1].examples
        THEN Delegate(spec.components[1].examples[refpath.name], spec)
    ELSE Return(None, TRUE, spec)

Example_from_ref(spec, path) ==
    LET refpath == RefPath_from_str(path) IN
    IF refpath.kind = "examples" THEN
        IF spec.components = None
            THEN Return(None, FALSE, spec)
        ELSE IF refpath.name \in DOMAIN spec.components[1].examples
            THEN Delegate(spec.components[1].examples[refpath.name], spec)
        ELSE Return(None, TRUE, spec)
    ELSE Return(None, FALSE, spec)

\* ObjectOrReference<T>::resolve: the inline value, or T::from_ref on the
\* raw reference string (call = Some(path))
\* variant of resolve that re-reads an inline Schema's items reference
resolve_followsItems(T, oor) ==
    IF oor.tag = "Object"
        THEN IF T = "Schema" /\ oor.val.items # None
                THEN [ret |-> None, call |-> Some(oor.val.items[1].ref_path)]
                ELSE [ret |-> Some(IF T = "Schema" THEN Ok(oor.val) ELSE Some(oor.val)),
                      call |-> None]
    ELSE [ret |-> None, call |-> Some(oor.ref_path)]

resolve(T, oor) ==
    IF oor.tag = "Object"
        THEN [ret |-> Some(IF T = "Schema" THEN Ok(oor.val) ELSE Some(oor.val)),
              call |-> None]
    ELSE [ret |-> None, call |-> Some(oor.ref_path)]

\* ------------------------------------------------------------ resolution
NoOor == [tag |-> "NoOor"]

\* containers a caller can hold: top-level ones and the items of a stored schema
SchemaContainers ==
    {Object(s) : s \in SchemaVals} \cup {Ref(p) : p \in RefStrings}

ExampleContainers ==
    {Object(e) : e \in ExampleVals} \cup {Ref(p) : p \in RefStrings}

\* ------------------------------------------------------------ Path
Slots == 1 .. 3

Segs == {"a", "b"}

Seps == {"/", "."}

\* a binding that holds no Path yet
NoPath == [parts |-> <<>>, separator |-> "", live |-> FALSE]

Path_new(sep) == [parts |-> <<>>, separator |-> sep, live |-> TRUE]

is_root(self) == Len(self.parts) = 0

\* self.parts.push(part): self after the call
push(self, part) == [self EXCEPT !.parts = Append(@, part)]

\* variant of pop that takes the oldest part
pop_front(self) ==
    IF Len(self.parts) = 0
        THEN [self |-> self, ret |-> None]
    ELSE [self |-> [self EXCEPT !.parts = Tail(@)], ret |-> Some(Head(self.parts))]

\* self.parts.pop(): self after the call and the returned Option<String>
pop(self) ==
    IF Len(self.parts) = 0
        THEN [self |-> self, ret |-> None]
    ELSE [self |-> [self EXCEPT !.parts = SubSeq(@, 1, Len(@) - 1)],
          ret |-> Some(self.parts[Len(self.parts)])]

\* variant of extend that pushes on self and returns its clone
extend_inPlace(self, part) == [self |-> push(self, part), new |-> push(self, part)]

\* let mut new = self.clone(); new.parts.push(part); new
\* self after the call and the returned Path
extend(self, part) == [self |-> self, new |-> push(self, part)]

PathIdle == [i \in Slots |-> NoPath]

NoPushed == [i \in Slots |-> {}]

NoOrigin == [i \in Slots |-> None]

Init ==
    /\ doc \in Documents
    /\ call = [fn |-> "none"]
    /\ pc = "idle"
    /\ stack = <<>>
    /\ cur = NoOor
    /\ result = Pending
    /\ lookups = 0
    /\ hops = 0
    /\ run = 0
    /\ first = Pending
    /\ paths = PathIdle
    /\ pushed = NoPushed
    /\ origin = NoOrigin
    /\ nops = 0
    /\ last = [op |-> "none"]

Enter(c) ==
    /\ call' = c
    /\ result' = Pending
    /\ lookups' = 0
    /\ hops' = 0
    /\ IF c.fn = "from_ref"
          THEN pc' = "from_ref" /\ stack' = <<c.path>> /\ cur' = NoOor
          ELSE pc' = "resolve" /\ stack' = <<>> /\ cur' = c.oor

\* a caller invokes Schema::from_ref(&doc, path)
CallSchemaFromRef ==
    /\ pc = "idle"
    /\ \E p \in RefStrings : Enter([fn |-> "from_ref", T |-> "Schema", path |-> p])
    /\ run' = 1 /\ first' = Pending
    /\ UNCHANGED <<doc, pathVars>>

\* a caller invokes Example::from_ref(&doc, path)
CallExampleFromRef ==
    /\ pc = "idle"
    /\ \E p \in RefStrings : Enter([fn |-> "from_ref", T |-> "Example", path |-> p])
    /\ run' = 1 /\ first' = Pending
    /\ UNCHANGED <<doc, pathVars>>

\* a caller invokes oor.resolve(&doc) on an ObjectOrReference<Schema>
CallResolveSchema ==
    /\ pc = "idle"
    /\ \E o \in SchemaContainers : Enter([fn |-> "resolve", T |-> "Schema", oor |-> o])
    /\ run' = 1 /\ first' = Pending
    /\ UNCHANGED <<doc, pathVars>>

\* a caller invokes oor.resolve(&doc) on an ObjectOrReference<Example>
CallResolveExample ==
    /\ pc = "idle"
    /\ \E o \in ExampleContainers : Enter([fn |-> "resolve", T |-> "Example", oor |-> o])
    /\ run' = 1 /\ first' = Pending
    /\ UNCHANGED <<doc, pathVars>>

Activate(a) ==
    /\ doc' = a.spec
    /\ lookups' = IF a.looked THEN lookups + 1 ELSE lookups
    /\ IF a.ret # None
          THEN pc' = "done" /\ result' = a.ret[1] /\ cur' = NoOor
          ELSE pc' = "resolve" /\ cur' = a.next[1] /\ result' = result
    /\ UNCHANGED <<call, stack, hops, run, first, pathVars>>

\* the innermost Schema::from_ref activation runs
SchemaFromRef ==
    /\ pc = "from_ref" /\ call.T = "Schema"
    /\ Activate(Schema_from_ref(doc, stack[Len(stack)]))

\* the innermost Example::from_ref activation runs
ExampleFromRef ==
    /\ pc = "from_ref" /\ call.T = "Example"
    /\ Activate(Example_from_ref(doc, stack[Len(stack)]))

\* resolve runs on cur: it returns the inline value, or calls T::from_ref,
\* which needs one more frame
Resolve ==
    /\ pc = "resolve"
    /\ LET r == resolve(call.T, cur) IN
       IF r.ret # None
          THEN pc' = "done" /\ result' = r.ret[1] /\ stack' = stack /\ hops' = hops
          ELSE /\ hops' = hops + 1
               /\ result' = result
               /\ IF Len(stack) >= StackLimit
                     THEN pc' = "overflow" /\ stack' = stack
                     ELSE pc' = "from_ref" /\ stack' = Append(stack, r.call[1])
    /\ cur' = NoOor
    /\ UNCHANGED <<doc, call, lookups, run, first, pathVars>>

\* the caller repeats the same call on the same document
Repeat ==
    /\ pc = "done" /\ run = 1
    /\ first' = result
    /\ run' = 2
    /\ Enter(call)
    /\ UNCHANGED <<doc, pathVars>>

\* the caller takes the outcome
Finish ==
    /\ pc = "done"
    /\ pc' = "idle"
    /\ call' = [fn |-> "none"]
    /\ stack' = <<>> /\ cur' = NoOor /\ result' = Pending
    /\ lookups' = 0 /\ hops' = 0 /\ run' = 0 /\ first' = Pending
    /\ UNCHANGED <<doc, pathVars>>

Next ==
    \/ CallSchemaFromRef
    \/ CallExampleFromRef
    \/ CallResolveSchema
    \/ CallResolveExample
    \/ SchemaFromRef
    \/ ExampleFromRef
    \/ Resolve
    \/ Repeat
    \/ Finish

Spec == Init /\ [][Next]_vars

\* ------------------------------------------------------------ Path machine
\* pushed[i]: the pushes on path i not yet popped, each with the time of the
\* push; origin[i]: how path i was derived by extend, until it is next mutated
PathInit ==
    /\ doc = [components |-> None]
    /\ call = [fn |-> "none"]
    /\ pc = "idle"
    /\ stack = <<>>
    /\ cur = NoOor
    /\ result = Pending
    /\ lookups = 0
    /\ hops = 0
    /\ run = 0
    /\ first = Pending
    /\ \E sep \in Seps : paths = [PathIdle EXCEPT ![1] = Path_new(sep)]
    /\ pushed = NoPushed
    /\ origin = NoOrigin
    /\ nops = 0
    /\ last = [op |-> "none"]

Newest(S) == CHOOSE x \in S : \A y \in S : y[1] <= x[1]

PathPush ==
    /\ nops < MaxOps
    /\ \E i \in Slots, part \in Segs :
        /\ paths[i].live
        /\ paths' = [paths EXCEPT ![i] = push(paths[i], part)]
        /\ pushed' = [pushed EXCEPT ![i] = @ \cup {<<nops + 1, part>>}]
        /\ origin' = [origin EXCEPT ![i] = None]
        /\ last' = [op |-> "push", slot |-> i]
    /\ nops' = nops + 1
    /\ UNCHANGED resolveVars

PathPop ==
    /\ nops < MaxOps
    /\ \E i \in Slots :
        /\ paths[i].live
        /\ paths' = [paths EXCEPT ![i] = pop(paths[i]).self]
        /\ pushed' = [pushed EXCEPT ![i] = IF @ = {} THEN @ ELSE @ \ {Newest(@)}]
        /\ origin' = [origin EXCEPT ![i] = None]
        /\ last' = [op |-> "pop", slot |-> i, ret |-> pop(paths[i]).ret,
                    before |-> pushed[i]]
    /\ nops' = nops + 1
    /\ UNCHANGED resolveVars

PathExtend ==
    /\ nops < MaxOps
    /\ \E i \in Slots, j \in Slots, part \in Segs :
        /\ paths[i].live /\ j # i
        /\ paths' = [paths EXCEPT ![i] = extend(paths[i], part).self,
                                  ![j] = extend(paths[i], part).new]
        /\ pushed' = [pushed EXCEPT ![j] = pushed[i] \cup {<<nops + 1, part>>}]
        /\ origin' = [origin EXCEPT
                         ![j] = Some([src |-> i, parent |-> paths[i], part |-> part])]
        /\ last' = [op |-> "extend", slot |-> i, new |-> j, part |-> part]
    /\ nops' = nops + 1
    /\ UNCHANGED resolveVars

PathIsRoot ==
    /\ \E i \in Slots :
        /\ paths[i].live
        /\ last' = [op |-> "is_root", slot |-> i, ret |-> is_root(paths[i])]
    /\ UNCHANGED <<paths, pushed, origin, nops, resolveVars>>

PathNext ==
    \/ PathPush
    \/ PathPop
    \/ PathExtend
    \/ PathIsRoot

SpecPath == PathInit /\ [][PathNext]_vars

\* ------------------------------------------------------------ properties
\* the raw reference string of the call in progress, when it has one
HasTopRef == call.fn = "from_ref" \/ (call.fn = "resolve" /\ call.oor.tag = "Ref")

TopRef == IF call.fn = "from_ref" THEN call.path ELSE call.oor.ref_path

\* a completed Schema resolution of a raw reference string
SchemaRefDone == pc = "done" /\ HasTopRef /\ call.T = "Schema"

\* a completed Schema::from_ref call
SchemaFromRefDone == pc = "done" /\ call.fn = "from_ref" /\ call.T = "Schema"

WellFormed(p) == Len(p) = 4 /\ p[1] = "#" /\ p[4] # ""

ForeignKind(seg) == IF seg = "examples" THEN "Example" ELSE "Response"

HasSchema(n) == doc.components # None /\ n \in DOMAIN doc.components[1].schemas

HasExample(n) == doc.components # None /\ n \in DOMAIN doc.components[1].examples

IsErr(r, e) == r.tag = "Err" /\ r.err = e

\* C1: a reference string of a kind other than Schema makes Schema::from_ref
\* return MismatchedType(found kind, Schema), never Unresolvable, without any
\* lookup of the name, whether or not the name is a key of schemas.
C1_MismatchedBeforeLookup ==
    (SchemaFromRefDone /\ WellFormed(call.path)
        /\ call.path[3] \in {"examples", "responses"})
    => /\ IsErr(result, MismatchedType(ForeignKind(call.path[3]), "Schema"))
       /\ lookups = 0

C1_Witness ==
    /\ SchemaFromRefDone
    /\ call.path = RefStr("examples", "A")
    /\ HasSchema("A")
    /\ result.tag = "Err"

\* C2: a Schema reference whose name is not a key of schemas (or whose
\* document has no components) makes Schema::from_ref return Unresolvable
\* with the raw reference string as passed in, never MismatchedType.
C2_UnresolvableCarriesRaw ==
    (SchemaFromRefDone /\ WellFormed(call.path) /\ call.path[3] = "schemas"
        /\ ~HasSchema(call.path[4]))
    => IsErr(result, Unresolvable(call.path))

C2_Witness ==
    /\ SchemaFromRefDone
    /\ call.path = RefStr("schemas", "C")
    /\ HasSchema("A")
    /\ result.tag = "Err"

\* C3: resolving a Schema reference (by from_ref or by resolve on a
\* reference container) whose name maps to an inline entry of schemas
\* succeeds with that stored schema.
C3_InlineTargetReturned ==
    (HasTopRef /\ call.T = "Schema" /\ WellFormed(TopRef) /\ TopRef[3] = "schemas"
        /\ HasSchema(TopRef[4])
        /\ doc.components[1].schemas[TopRef[4]].tag = "Object")
    => /\ pc # "overflow"
       /\ pc = "done" =>
            /\ result.tag = "Ok"
            /\ result.val = doc.components[1].schemas[TopRef[4]].val

C3_Witness ==
    /\ pc = "done" /\ call.fn = "resolve" /\ call.T = "Schema"
    /\ call.oor = Ref(RefStr("schemas", "A"))
    /\ HasSchema("A")
    /\ doc.components[1].schemas["A"] = Object(Schema("array", Some(Ref(RefStr("schemas", "A")))))
    /\ result.tag = "Ok"

\* C4: every resolution terminates: the chain of from_ref activations never
\* outgrows the stack, also when component entries reference each other in
\* a cycle.
C4_ResolutionTerminates == pc # "overflow"

\* C5: resolve on an inline container returns the inline value unchanged and
\* looks nothing up, also in a document without components.
C5_InlineNoLookup ==
    (pc = "done" /\ call.fn = "resolve" /\ call.oor.tag = "Object")
    => /\ lookups = 0
       /\ hops = 0
       /\ IF call.T = "Schema"
             THEN result.tag = "Ok" /\ result.val = call.oor.val
             ELSE result = Some(call.oor.val)

C5_Witness ==
    /\ pc = "done" /\ call.fn = "resolve" /\ call.T = "Schema"
    /\ call.oor = Object(Schema("array", Some(Ref(RefStr("schemas", "A")))))
    /\ doc.components = None
    /\ result.tag = "Ok"

\* C6: a reference string that is malformed or names no known collection
\* makes Schema::from_ref return the parse failure, with no lookup; never
\* MismatchedType, Unresolvable or a value.
C6_ParseFailureFirst ==
    (SchemaFromRefDone
        /\ (~WellFormed(call.path)
            \/ call.path[3] \notin {"schemas", "examples", "responses"}))
    => /\ result.tag = "Err"
       /\ result.err.e = "InvalidType"
       /\ lookups = 0

C6_Witness ==
    /\ SchemaFromRefDone
    /\ call.path = RefStr("widgets", "A")
    /\ HasSchema("A")
    /\ result.tag = "Err"

\* C7: Example::from_ref returns a value only when the kind is "examples"
\* and the name is a key of examples; a foreign or unknown kind, an absent
\* name and a document without components all give None.
C7_LooseNotFound ==
    (pc = "done" /\ call.fn = "from_ref" /\ call.T = "Example")
    => (result # None
          => /\ RefPath_from_str(call.path).kind = "examples"
             /\ HasExample(RefPath_from_str(call.path).name))

C7_Witness ==
    /\ pc = "done" /\ call.fn = "from_ref" /\ call.T = "Example"
    /\ call.path = RefStr("schemas", "A")
    /\ HasExample("A") /\ HasSchema("A")
    /\ result = None

\* C8: extend leaves self (and every other path) unchanged and returns self's
\* parts followed by the new part, with self's separator; a path derived by
\* extend keeps exactly its parent's parts plus its own part whatever is
\* later done to its parent and siblings.
C8_ExtendStep ==
    (last'.op = "extend" /\ nops' = nops + 1)
    => /\ paths'[last'.new].parts = Append(paths[last'.slot].parts, last'.part)
       /\ paths'[last'.new].separator = paths[last'.slot].separator
       /\ \A k \in Slots \ {last'.new} : paths'[k] = paths[k]

C8_Derived ==
    \A j \in Slots :
        origin[j] # None
        => paths[j].parts = Append(origin[j][1].parent.parts, origin[j][1].part)

C8_ExtendFrame == [][C8_ExtendStep]_vars /\ []C8_Derived

C8_Witness ==
    /\ origin[2] # None /\ origin[3] # None
    /\ origin[2][1].src = 1 /\ origin[3][1].src = 1
    /\ paths[1].parts = <<"a">>
    /\ paths[2].parts = <<"a", "a">>
    /\ paths[3].parts = <<"a", "b">>

\* C9: the parts are the pushes not yet popped, oldest first; pop returns the
\* newest of them, or None on an empty path, which stays empty; is_root is
\* true exactly when no push is outstanding.
InPushOrder(i) ==
    /\ Len(paths[i].parts) = Cardinality(pushed[i])
    /\ \A x \in pushed[i] :
        paths[i].parts[Cardinality({y \in pushed[i] : y[1] <= x[1]})] = x[2]

C9_Lifo ==
    /\ \A i \in Slots :
        paths[i].live => /\ InPushOrder(i)
                         /\ is_root(paths[i]) <=> pushed[i] = {}
    /\ last.op = "pop" =>
        IF last.before = {}
            THEN last.ret = None /\ paths[last.slot].parts = <<>>
            ELSE last.ret = Some(Newest(last.before)[2])
    /\ last.op = "is_root" => (last.ret <=> pushed[last.slot] = {})

C9_Witness ==
    /\ last.op = "pop" /\ last.slot = 1
    /\ last.ret = Some("b")
    /\ paths[1].parts = <<"a">>

\* C10: a resolution, successful or not, leaves the document and the
\* container being resolved as they were, and the same call repeated on the
\* same document gives the same outcome.
C10_Frame ==
    /\ doc' = doc
    /\ (pc # "idle" /\ pc' # "idle") => call' = call

C10_SameOutcome == (pc = "done" /\ run = 2) => result = first

C10_NoSideEffects == [][C10_Frame]_vars /\ []C10_SameOutcome

C10_Witness ==
    /\ pc = "done" /\ run = 2 /\ lookups = 2
    /\ call.T = "Schema"
    /\ result.tag = "Ok"

====
